---- MODULE Spec2Model ----
(***************************************************************************)
(* Model of the WebAssembly adapter around the equations-parser engine     *)
(* (src/cpp/equations_parser_wrapper.cpp).  A std::string is a sequence of *)
(* one-character strings.  The engine (EquationsParser::CalcJson and       *)
(* EquationsParser::Calc) is external: an engine condition fixes, for each *)
(* entry point and each input, whether the call returns a string, throws   *)
(* an exception derived from std::exception, or throws anything else.      *)
(* Each exported function is executed statement by statement; the host is  *)
(* single threaded and starts a call only when the previous one is over.   *)
(***************************************************************************)
EXTENDS Integers, Sequences, FiniteSets

VARIABLES engine, cout, cerr, pc, equation, local, trace, lastOp, retval, returned

vars == <<engine, cout, cerr, pc, equation, local, trace, lastOp, retval, returned>>

----------------------------------------------------------------------------
(* Bounds and enumerated inputs *)

MaxMsgLen == 1

MsgChars == {"a", "\""}

RECURSIVE StringsUpTo(_)
StringsUpTo(n) ==
    IF n = 0 THEN {<<>>}
    ELSE LET shorter == StringsUpTo(n - 1)
         IN  shorter \cup {Append(s, c) : s \in {t \in shorter : Len(t) = n - 1}, c \in MsgChars}

\* what() texts of the typed exceptions the engine may throw
Messages == StringsUpTo(MaxMsgLen)

----------------------------------------------------------------------------
(* String literals of the source *)

EVALUATING_PREFIX ==
    <<"C", "+", "+", ":", " ", "E", "v", "a", "l", "u", "a", "t", "i", "n", "g", " ", "e", "q", "u", "a", "t", "i", "o", "n", ":", " ">>

RESULT_PREFIX ==
    <<"C", "+", "+", ":", " ", "R", "e", "s", "u", "l", "t", ":", " ">>

EXCEPTION_CAUGHT_PREFIX ==
    <<"C", "+", "+", ":", " ", "E", "x", "c", "e", "p", "t", "i", "o", "n", " ", "c", "a", "u", "g", "h", "t", ":", " ">>

UNKNOWN_CAUGHT_LINE ==
    <<"C", "+", "+", ":", " ", "U", "n", "k", "n", "o", "w", "n", " ", "e", "x", "c", "e", "p", "t", "i", "o", "n", " ", "c", "a", "u", "g", "h", "t">>

KNOWN_MESSAGE_PREFIX ==
    <<"C", "+", "+", " ", "e", "x", "c", "e", "p", "t", "i", "o", "n", ":", " ">>

UNKNOWN_MESSAGE ==
    <<"U", "n", "k", "n", "o", "w", "n", " ", "C", "+", "+", " ", "e", "x", "c", "e", "p", "t", "i", "o", "n", " ", "o", "c", "c", "u", "r", "r", "e", "d">>

ERROR_JSON_OPEN ==
    <<"{", "\"", "e", "r", "r", "o", "r", "\"", ":", " ", "\"">>

ERROR_JSON_CLOSE ==
    <<"\"", "}">>

MODULE_LOADED_LINE ==
    <<"C", "+", "+", ":", " ", "E", "q", "u", "a", "t", "i", "o", "n", "s", "-", "p", "a", "r", "s", "e", "r", " ", "W", "A", "S", "M", " ", "m", "o", "d", "u", "l", "e", " ", "l", "o", "a", "d", "e", "d", " ", "s", "u", "c", "c", "e", "s", "s", "f", "u", "l", "l", "y", "!">>

BASIC_TEST_OPEN ==
    <<"C", "+", "+", ":", " ", "B", "a", "s", "i", "c", " ", "t", "e", "s", "t", " ", "(">>

BASIC_TEST_MID ==
    <<")", " ", "=", " ">>

TEST_FAILED_LINE ==
    <<"C", "+", "+", ":", " ", "T", "e", "s", "t", " ", "f", "a", "i", "l", "e", "d", " ", "-", " ", "e", "q", "u", "a", "t", "i", "o", "n", "s", "-", "p", "a", "r", "s", "e", "r", " ", "n", "o", "t", " ", "w", "o", "r", "k", "i", "n", "g", " ", "p", "r", "o", "p", "e", "r", "l", "y">>

TEST_EQUATION ==
    <<"2", " ", "+", " ", "2">>

getSuccessIndicator == 42

getFailureIndicator == 0 - 1

----------------------------------------------------------------------------
(* Outcomes of a call into the engine, and values handed to the host *)

Returned(s) == [kind |-> "return", text |-> s]

\* an exception of a class derived from std::exception, what() = m
StdException(m) == [kind |-> "std", text |-> m]

\* a thrown object of any other type; d is whatever it carries
OtherThrow(d) == [kind |-> "other", text |-> d]

StringValue(s) == [kind |-> "string", str |-> s, int |-> 0]

IntValue(n) == [kind |-> "int", str |-> <<>>, int |-> n]

\* the call ended by an exception leaving the exported function
Propagated == [kind |-> "fault", str |-> <<>>, int |-> 0]

NoValue == [kind |-> "none", str |-> <<>>, int |-> 0]

NoLocal == [kind |-> "none", text |-> <<>>]

\* payloads the engine's CalcJson serialises (format owned by the engine)
SuccessFour ==
    <<"{", "\"", "v", "a", "l", "\"", ":", " ", "\"", "4", "\"", ",", " ", "\"", "t", "y", "p", "e", "\"", ":", " ", "\"", "i", "\"", "}">>

EngineErrorPayload ==
    <<"{", "\"", "e", "r", "r", "o", "r", "\"", ":", " ", "\"", "D", "i", "v", "i", "s", "i", "o", "n", " ", "b", "y", " ", "z", "e", "r", "o", "\"", "}">>

Payloads == {SuccessFour, EngineErrorPayload}

OtherDetails == {<<>>, <<"a">>}

Equations == {TEST_EQUATION, <<>>}

CalcJsonOutcomes ==
    {Returned(p) : p \in Payloads} \cup {StdException(m) : m \in Messages}
        \cup {OtherThrow(d) : d \in OtherDetails}

CalcOutcomes ==
    {Returned(<<"4">>), Returned(<<"5">>), StdException(<<"a">>), OtherThrow(<<>>)}

EngineConditions ==
    [CalcJson : [Equations -> CalcJsonOutcomes], Calc : [{TEST_EQUATION} -> CalcOutcomes]]

----------------------------------------------------------------------------
(* Output streams.  std::cout and std::cerr keep their default exception   *)
(* mask (the source never calls exceptions()), so a failed insertion sets  *)
(* the stream's error state and throws nothing; a stream in error state    *)
(* rejects every later insertion (the source never calls clear()).         *)

IOS_FAILURE_WHAT == <<"i", "o", "s">>

WriteLineThrowing(state, accepted) ==
    [state |-> IF state = "good" /\ accepted THEN "good" ELSE "bad",
     written |-> state = "good" /\ accepted,
     threw |-> ~(state = "good" /\ accepted)]

WriteLine(state, accepted) ==
    [state |-> IF state = "good" /\ accepted THEN "good" ELSE "bad",
     written |-> state = "good" /\ accepted,
     threw |-> FALSE]

LogEvent(stream, line, w) == [ev |-> "log", stream |-> stream, line |-> line, ok |-> w.written]

EngineEvent(entry, arg) == [ev |-> "engine", stream |-> entry, line |-> arg, ok |-> TRUE]

----------------------------------------------------------------------------
(* Pure helpers of the wrapper *)

createErrorJson(errorMessage) ==
    ERROR_JSON_OPEN \o errorMessage \o ERROR_JSON_CLOSE

handleKnownExceptionResultNoPrefix(what) == createErrorJson(what)

handleKnownExceptionResult(what) == createErrorJson(KNOWN_MESSAGE_PREFIX \o what)

handleUnknownExceptionResultWithInput == createErrorJson(UNKNOWN_MESSAGE \o equation)

handleUnknownExceptionResult == createErrorJson(UNKNOWN_MESSAGE)

\* the diagnostic lines
logEquationEvaluationLineWithoutInput(eq) == EVALUATING_PREFIX

logEquationEvaluationLine(eq) == EVALUATING_PREFIX \o eq

logSuccessfulEvaluationLine(result) == RESULT_PREFIX \o result

handleKnownExceptionLine(what) == EXCEPTION_CAUGHT_PREFIX \o what

handleUnknownExceptionLine == UNKNOWN_CAUGHT_LINE

runBasicFunctionalityTestLine(testResult) ==
    BASIC_TEST_OPEN \o TEST_EQUATION \o BASIC_TEST_MID \o testResult

evaluateEquationSafelyWrapped(eq) ==
    LET outcome == engine.CalcJson[eq]
    IN  IF outcome.kind = "return" THEN Returned(<<" ">> \o outcome.text) ELSE outcome

evaluateEquationSafelyViaCalc(eq) == engine.Calc[TEST_EQUATION]

\* evaluateEquationSafely hands on whatever CalcJson returns or throws
evaluateEquationSafely(eq) == engine.CalcJson[eq]

\* the handlers of eval_equation's try block, in order
EvalCatchClauseNoCatchAll(exc) ==
    IF exc.kind = "std" THEN "eval_known" ELSE "propagate"

EvalCatchClause(exc) ==
    IF exc.kind = "std" THEN "eval_known" ELSE "eval_unknown"

runBasicFunctionalityTestValueChecked(testResult) ==
    IF testResult = <<"4">> THEN getSuccessIndicator ELSE getFailureIndicator

\* runBasicFunctionalityTest's return value once Calc has returned testResult
runBasicFunctionalityTestValue(testResult) == getSuccessIndicator

----------------------------------------------------------------------------
(* State machine *)

Init ==
    /\ engine \in EngineConditions
    /\ cout = "good"
    /\ cerr = "good"
    /\ pc = "idle"
    /\ equation = <<>>
    /\ local = NoLocal
    /\ trace = <<>>
    /\ lastOp = "none"
    /\ retval = NoValue
    /\ returned = {}

LogFailed(tr) == \E i \in 1..Len(tr) : tr[i].ev = "log" /\ ~tr[i].ok

\* the exported function hands rv to the host (or lets an exception out);
\* returned remembers the first completed call of each function on each input
Complete(rv, tr) ==
    /\ pc' = "idle"
    /\ retval' = rv
    /\ trace' = tr
    /\ local' = NoLocal
    /\ returned' =
           IF \E r \in returned : r.op = lastOp /\ r.input = equation
           THEN returned
           ELSE returned \cup
                  {[op |-> lastOp, input |-> equation, retval |-> rv, logFailed |-> LogFailed(tr)]}

\* the host calls eval_equation(eq)
CallEvalEquation ==
    /\ pc = "idle"
    /\ \E eq \in Equations : equation' = eq
    /\ pc' = "eval_log"
    /\ lastOp' = "eval"
    /\ trace' = <<>>
    /\ retval' = NoValue
    /\ local' = NoLocal
    /\ UNCHANGED <<engine, cout, cerr, returned>>

\* line 26, outside the try block
logEquationEvaluation ==
    /\ pc = "eval_log"
    /\ \E accepted \in BOOLEAN :
         LET w  == WriteLine(cout, accepted)
             tr == Append(trace, LogEvent("cout", logEquationEvaluationLine(equation), w))
         IN  /\ cout' = w.state
             /\ IF w.threw
                THEN Complete(Propagated, tr)
                ELSE /\ pc' = "eval_try"
                     /\ trace' = tr
                     /\ UNCHANGED <<local, retval, returned>>
    /\ UNCHANGED <<engine, cerr, equation, lastOp>>

\* line 29: the engine call inside the try block, and the choice of handler
evaluateEquation ==
    /\ pc = "eval_try"
    /\ LET outcome == evaluateEquationSafely(equation)
           tr      == Append(trace, EngineEvent("CalcJson", equation))
           target  == IF outcome.kind = "return" THEN "eval_log_result"
                      ELSE EvalCatchClause(outcome)
       IN  IF target = "propagate"
           THEN Complete(Propagated, tr)
           ELSE /\ pc' = target
                /\ local' = outcome
                /\ trace' = tr
                /\ UNCHANGED <<retval, returned>>
    /\ UNCHANGED <<engine, cout, cerr, equation, lastOp>>

\* lines 30-31, still inside the try block: std::ios_base::failure is a
\* std::exception and would be caught by the first handler
logSuccessfulEvaluation ==
    /\ pc = "eval_log_result"
    /\ \E accepted \in BOOLEAN :
         LET w  == WriteLine(cout, accepted)
             tr == Append(trace, LogEvent("cout", logSuccessfulEvaluationLine(local.text), w))
         IN  /\ cout' = w.state
             /\ IF w.threw
                THEN /\ pc' = EvalCatchClause(StdException(IOS_FAILURE_WHAT))
                     /\ local' = StdException(IOS_FAILURE_WHAT)
                     /\ trace' = tr
                     /\ UNCHANGED <<retval, returned>>
                ELSE Complete(StringValue(local.text), tr)
    /\ UNCHANGED <<engine, cerr, equation, lastOp>>

\* lines 33-34 and 67-70
handleKnownException ==
    /\ pc = "eval_known"
    /\ \E accepted \in BOOLEAN :
         LET w  == WriteLine(cerr, accepted)
             tr == Append(trace, LogEvent("cerr", handleKnownExceptionLine(local.text), w))
         IN  /\ cerr' = w.state
             /\ IF w.threw
                THEN Complete(Propagated, tr)
                ELSE Complete(StringValue(handleKnownExceptionResult(local.text)), tr)
    /\ UNCHANGED <<engine, cout, equation, lastOp>>

\* lines 35-36 and 72-75
handleUnknownException ==
    /\ pc = "eval_unknown"
    /\ \E accepted \in BOOLEAN :
         LET w  == WriteLine(cerr, accepted)
             tr == Append(trace, LogEvent("cerr", handleUnknownExceptionLine, w))
         IN  /\ cerr' = w.state
             /\ IF w.threw
                THEN Complete(Propagated, tr)
                ELSE Complete(StringValue(handleUnknownExceptionResult), tr)
    /\ UNCHANGED <<engine, cout, equation, lastOp>>

\* the host calls test_equations_parser_loaded()
CallTestEquationsParserLoaded ==
    /\ pc = "idle"
    /\ pc' = "probe_log"
    /\ lastOp' = "probe"
    /\ equation' = <<>>
    /\ trace' = <<>>
    /\ retval' = NoValue
    /\ local' = NoLocal
    /\ UNCHANGED <<engine, cout, cerr, returned>>

\* line 45, outside the try block
logModuleLoadSuccess ==
    /\ pc = "probe_log"
    /\ \E accepted \in BOOLEAN :
         LET w  == WriteLine(cout, accepted)
             tr == Append(trace, LogEvent("cout", MODULE_LOADED_LINE, w))
         IN  /\ cout' = w.state
             /\ IF w.threw
                THEN Complete(Propagated, tr)
                ELSE /\ pc' = "probe_try"
                     /\ trace' = tr
                     /\ UNCHANGED <<local, retval, returned>>
    /\ UNCHANGED <<engine, cerr, equation, lastOp>>

\* lines 48 and 85-91: Calc on the fixed expression, the log line, the
\* sentinel; anything thrown on the way is caught by catch (...)
runBasicFunctionalityTest ==
    /\ pc = "probe_try"
    /\ LET outcome == engine.Calc[TEST_EQUATION]
           tr1     == Append(trace, EngineEvent("Calc", TEST_EQUATION))
       IN  IF outcome.kind # "return"
           THEN /\ pc' = "probe_catch"
                /\ local' = outcome
                /\ trace' = tr1
                /\ UNCHANGED <<cout, retval, returned>>
           ELSE \E accepted \in BOOLEAN :
                  LET w  == WriteLine(cout, accepted)
                      tr == Append(tr1, LogEvent("cout",
                                runBasicFunctionalityTestLine(outcome.text), w))
                  IN  /\ cout' = w.state
                      /\ IF w.threw
                         THEN /\ pc' = "probe_catch"
                              /\ local' = StdException(IOS_FAILURE_WHAT)
                              /\ trace' = tr
                              /\ UNCHANGED <<retval, returned>>
                         ELSE Complete(IntValue(runBasicFunctionalityTestValue(outcome.text)), tr)
    /\ UNCHANGED <<engine, cerr, equation, lastOp>>

\* lines 49-51, 93-95 and 101-103
handleTestFailure ==
    /\ pc = "probe_catch"
    /\ \E accepted \in BOOLEAN :
         LET w  == WriteLine(cerr, accepted)
             tr == Append(trace, LogEvent("cerr", TEST_FAILED_LINE, w))
         IN  /\ cerr' = w.state
             /\ IF w.threw
                THEN Complete(Propagated, tr)
                ELSE Complete(IntValue(getFailureIndicator), tr)
    /\ UNCHANGED <<engine, cout, equation, lastOp>>

Next ==
    \/ CallEvalEquation
    \/ logEquationEvaluation
    \/ evaluateEquation
    \/ logSuccessfulEvaluation
    \/ handleKnownException
    \/ handleUnknownException
    \/ CallTestEquationsParserLoaded
    \/ logModuleLoadSuccess
    \/ runBasicFunctionalityTest
    \/ handleTestFailure

Spec == Init /\ [][Next]_vars

TypeOK ==
    /\ engine \in EngineConditions
    /\ cout \in {"good", "bad"}
    /\ cerr \in {"good", "bad"}
    /\ pc \in {"idle", "eval_log", "eval_try", "eval_log_result", "eval_known",
               "eval_unknown", "probe_log", "probe_try", "probe_catch"}
    /\ lastOp \in {"none", "eval", "probe"}
    /\ retval.kind \in {"none", "string", "int", "fault"}

----------------------------------------------------------------------------
(* Reading a returned string as JSON, as the host does.  Only objects      *)
(* whose values are strings are needed.                                    *)

At(s, i) == IF i \in 1..Len(s) THEN s[i] ELSE "EOF"

RECURSIVE SkipWs(_, _)
SkipWs(s, i) == IF At(s, i) = " " THEN SkipWs(s, i + 1) ELSE i

\* i is the position after an opening quote; the position of the closing
\* quote, or 0 when the string never closes
RECURSIVE ScanString(_, _)
ScanString(s, i) ==
    IF i > Len(s) THEN 0
    ELSE IF s[i] = "\"" THEN i
    ELSE IF s[i] = "\\" THEN ScanString(s, i + 2)
    ELSE ScanString(s, i + 1)

NoMember == [ok |-> FALSE, key |-> <<>>, val |-> <<>>, next |-> 0]

\* "key" : "value" starting at position i
ParseMember(s, i) ==
    IF At(s, i) # "\"" THEN NoMember
    ELSE LET c == ScanString(s, i + 1)
         IN  IF c = 0 THEN NoMember
             ELSE LET j == SkipWs(s, c + 1)
                  IN  IF At(s, j) # ":" THEN NoMember
                      ELSE LET k == SkipWs(s, j + 1)
                           IN  IF At(s, k) # "\"" THEN NoMember
                               ELSE LET d == ScanString(s, k + 1)
                                    IN  IF d = 0 THEN NoMember
                                        ELSE [ok |-> TRUE,
                                              key |-> SubSeq(s, i + 1, c - 1),
                                              val |-> SubSeq(s, k + 1, d - 1),
                                              next |-> d + 1]

NotJson == [ok |-> FALSE, members |-> <<>>]

RECURSIVE ParseMembers(_, _, _)
ParseMembers(s, i, acc) ==
    LET m == ParseMember(s, SkipWs(s, i))
    IN  IF ~m.ok THEN NotJson
        ELSE LET j    == SkipWs(s, m.next)
                 acc2 == Append(acc, [key |-> m.key, val |-> m.val])
             IN  IF At(s, j) = "," THEN ParseMembers(s, j + 1, acc2)
                 ELSE IF At(s, j) = "}" /\ SkipWs(s, j + 1) = Len(s) + 1
                      THEN [ok |-> TRUE, members |-> acc2]
                      ELSE NotJson

ParseJsonObject(s) ==
    LET i == SkipWs(s, 1)
    IN  IF At(s, i) # "{" THEN NotJson
        ELSE LET j == SkipWs(s, i + 1)
             IN  IF At(s, j) = "}"
                 THEN (IF SkipWs(s, j + 1) = Len(s) + 1
                       THEN [ok |-> TRUE, members |-> <<>>] ELSE NotJson)
                 ELSE ParseMembers(s, j, <<>>)

Keys(obj) == {obj.members[i].key : i \in 1..Len(obj.members)}

Field(obj, k) ==
    LET i == CHOOSE i \in 1..Len(obj.members) : obj.members[i].key = k
    IN  obj.members[i].val

KEY_ERROR == <<"e", "r", "r", "o", "r">>

KEY_VAL == <<"v", "a", "l">>

KEY_TYPE == <<"t", "y", "p", "e">>

\* {"error": <non-empty text>} and nothing else
IsErrorShape(s) ==
    LET obj == ParseJsonObject(s)
    IN  /\ obj.ok
        /\ Len(obj.members) = 1
        /\ Keys(obj) = {KEY_ERROR}
        /\ Field(obj, KEY_ERROR) # <<>>

\* {"val": ..., "type": ...} and nothing else
IsSuccessShape(s) ==
    LET obj == ParseJsonObject(s)
    IN  /\ obj.ok
        /\ Len(obj.members) = 2
        /\ Keys(obj) = {KEY_VAL, KEY_TYPE}

Digits == <<"0", "1", "2", "3", "4", "5", "6", "7", "8", "9">>

DigitValue(c) == (CHOOSE i \in 1..10 : Digits[i] = c) - 1

RECURSIVE ParseNat(_)
\* the number a text of decimal digits denotes; -1 for any other text
ParseNat(t) ==
    IF t = <<>> THEN 0 - 1
    ELSE IF ~(\E i \in 1..10 : Digits[i] = t[Len(t)]) THEN 0 - 1
    ELSE IF Len(t) = 1 THEN DigitValue(t[1])
    ELSE LET high == ParseNat(SubSeq(t, 1, Len(t) - 1))
         IN  IF high < 0 THEN 0 - 1 ELSE 10 * high + DigitValue(t[Len(t)])

ValIsFour(s) == IsSuccessShape(s) /\ ParseNat(Field(ParseJsonObject(s), KEY_VAL)) = 4

Classification(rv) ==
    IF rv.kind # "string" THEN rv.kind
    ELSE IF IsErrorShape(rv.str) THEN "error"
    ELSE IF IsSuccessShape(rv.str) THEN "success"
    ELSE "malformed"

\* eval_equation has just handed a value back (or let an exception out)
EvalDone == pc = "idle" /\ lastOp = "eval"

ProbeDone == pc = "idle" /\ lastOp = "probe"

\* what the engine did in the call that has just ended
EvalOutcome == engine.CalcJson[equation]

ProbeOutcome == engine.Calc[TEST_EQUATION]

EvalRecords == {r \in returned : r.op = "eval"}

ProbeRecords == {r \in returned : r.op = "probe"}

EndsWith(line, text) ==
    /\ Len(line) >= Len(text)
    /\ SubSeq(line, Len(line) - Len(text) + 1, Len(line)) = text

----------------------------------------------------------------------------
(* Claims *)

\* C1: whatever the input and whatever the engine call does (returns,
\* throws a std::exception, throws anything else), eval_equation ends by
\* returning a string; no exception leaves it.
C1_AlwaysReturnsString ==
    /\ EvalDone => retval.kind = "string"
    /\ \A r \in EvalRecords : r.retval.kind = "string"

C1_Witness ==
    /\ EvalDone
    /\ equation = <<>>
    /\ EvalOutcome.kind = "other"
    /\ retval.kind = "string"
    /\ \E r \in EvalRecords : r.input = TEST_EQUATION /\ engine.CalcJson[TEST_EQUATION].kind = "std"

ExpectedErrorOpen ==
    <<"{", "\"", "e", "r", "r", "o", "r", "\"", ":", " ", "\"">>

ExpectedErrorClose == <<"\"", "}">>

ExpectedKnownPrefix ==
    <<"C", "+", "+", " ", "e", "x", "c", "e", "p", "t", "i", "o", "n", ":", " ">>

C3_SuccessPayloadVerbatim ==
    (EvalDone /\ EvalOutcome.kind = "return") => retval = StringValue(EvalOutcome.text)

C3_Witness ==
    /\ EvalDone
    /\ EvalOutcome.kind = "return"
    /\ retval.str = SuccessFour
    /\ \E r \in EvalRecords : r.input # equation /\ r.retval.str = EngineErrorPayload

ExpectedUnknownPayload ==
    <<"{", "\"", "e", "r", "r", "o", "r", "\"", ":", " ", "\"", "U", "n", "k", "n", "o", "w", "n", " ", "C", "+", "+", " ", "e", "x", "c", "e", "p", "t", "i", "o", "n", " ", "o", "c", "c", "u", "r", "r", "e", "d", "\"", "}">>

\* C4: on a fault that is not a std::exception the returned string is one
\* fixed error payload, the same for every such fault and every input.
C4_UnknownFaultGenericPayload ==
    /\ (EvalDone /\ EvalOutcome.kind = "other") => retval = StringValue(ExpectedUnknownPayload)
    /\ \A r \in EvalRecords :
          engine.CalcJson[r.input].kind = "other" => r.retval = StringValue(ExpectedUnknownPayload)

C4_Witness ==
    /\ EvalDone
    /\ equation = TEST_EQUATION
    /\ EvalOutcome = OtherThrow(<<"a">>)
    /\ IsErrorShape(retval.str)
    /\ \E r \in EvalRecords :
          /\ r.input = <<>>
          /\ engine.CalcJson[<<>>] = OtherThrow(<<>>)
          /\ r.retval = retval

\* C5: test_equations_parser_loaded returns 42 exactly when Calc("2 + 2")
\* returns without throwing, -1 whenever it throws anything; no other value
\* and no exception leaves it.
C5_ProbeSentinels ==
    ProbeDone =>
        /\ retval.kind = "int"
        /\ retval.int \in {42, 0 - 1}
        /\ (retval.int = 42) <=> (ProbeOutcome.kind = "return")
        /\ (ProbeOutcome.kind # "return") => (retval.int = 0 - 1)

C5_Witness ==
    /\ ProbeDone
    /\ ProbeOutcome.kind = "other"
    /\ retval = IntValue(0 - 1)

C5_WitnessSuccess ==
    /\ ProbeDone
    /\ ProbeOutcome = Returned(<<"5">>)
    /\ retval = IntValue(42)

\* C6 as stated: every string eval_equation returns is a JSON object of
\* shape {"val", "type"} or of shape {"error"} with non-empty text, and it
\* is the {"error"} shape whenever the engine rejects the expression,
\* whatever the diagnostic text.
C6_ReturnedStringHasOneOfTwoShapes ==
    EvalDone =>
        /\ retval.kind = "string"
        /\ IsErrorShape(retval.str) \/ IsSuccessShape(retval.str)
        /\ ~(IsErrorShape(retval.str) /\ IsSuccessShape(retval.str))
        /\ (EvalOutcome.kind # "return") => IsErrorShape(retval.str)

EngineOperative ==
    /\ engine.Calc[TEST_EQUATION] = Returned(<<"4">>)
    /\ engine.CalcJson[TEST_EQUATION].kind = "return"
    /\ ValIsFour(engine.CalcJson[TEST_EQUATION].text)

\* C7 as stated: under one engine condition, if the probe returns 42 then
\* eval_equation("2 + 2") returns a success payload whose val parses to 4.
C7_PassingProbeImpliesEvalWorks ==
    \A p \in ProbeRecords : \A e \in EvalRecords :
        (p.retval = IntValue(42) /\ e.input = TEST_EQUATION) =>
            (e.retval.kind = "string" /\ ValIsFour(e.retval.str))

\* C7 amended: under an engine condition in which the engine is operative
\* (Calc and CalcJson both answer "2 + 2" with 4), the probe returns 42 and
\* eval_equation("2 + 2") returns a success payload whose val parses to 4.
C7_OperativeEngineProbeAndEval ==
    EngineOperative =>
        /\ \A p \in ProbeRecords : p.retval = IntValue(42)
        /\ ProbeDone => retval = IntValue(42)
        /\ \A e \in EvalRecords :
              e.input = TEST_EQUATION => (e.retval.kind = "string" /\ ValIsFour(e.retval.str))
        /\ (EvalDone /\ equation = TEST_EQUATION) =>
              (retval.kind = "string" /\ ValIsFour(retval.str) /\ ~IsErrorShape(retval.str))

C7_Witness ==
    /\ EngineOperative
    /\ EvalDone
    /\ equation = TEST_EQUATION
    /\ ValIsFour(retval.str)
    /\ \E p \in ProbeRecords : p.retval = IntValue(42)

\* C8: a call of eval_equation has the same success/error classification
\* as the first call on the same input, whatever calls came in between.
C8_SameInputSameClassification ==
    EvalDone =>
        \A r \in EvalRecords :
            r.input = equation => Classification(retval) = Classification(r.retval)

C8_Witness ==
    /\ EvalDone
    /\ Classification(retval) = "error"
    /\ ProbeRecords # {}
    /\ Cardinality(EvalRecords) = 2
    /\ \E r \in EvalRecords : r.input = equation /\ ~r.logFailed /\ LogFailed(trace)

\* C9: a call of eval_equation in which a diagnostic line could not be
\* written returns a string, and the same string as a call on the same
\* input in which every line was written.
C9_LogFailureDoesNotChangeResult ==
    (EvalDone /\ LogFailed(trace)) =>
        /\ retval.kind = "string"
        /\ \A r \in EvalRecords : (r.input = equation /\ ~r.logFailed) => retval = r.retval

C9_Witness ==
    /\ EvalDone
    /\ Len(trace) = 3
    /\ ~trace[1].ok
    /\ ~trace[3].ok
    /\ \E r \in EvalRecords : r.input = equation /\ ~r.logFailed /\ retval = r.retval

ExpectedUnknownCaughtLine ==
    <<"C", "+", "+", ":", " ", "U", "n", "k", "n", "o", "w", "n", " ", "e", "x", "c", "e", "p", "t", "i", "o", "n", " ", "c", "a", "u", "g", "h", "t">>

====
